---- MODULE Spec2Model ----
(***************************************************************************)
(* TextBasedChannel (src/structures/interface/TextBasedChannel.js): the    *)
(* bounded message cache of a channel, the promise callbacks of            *)
(* getMessages that fill it, bulkDelete, sendMessage / sendTTSMessage and  *)
(* applyToClass.                                                           *)
(*                                                                         *)
(* A Map / Collection is a sequence of entries [k, v] in insertion order.  *)
(* A Message is a record [id, by]: `by` names the constructor call that    *)
(* made the object ("getMessages" for line 91, "other" for any message     *)
(* built elsewhere), so two Message objects with one id can differ.        *)
(***************************************************************************)
EXTENDS Integers, Sequences, FiniteSets, TLC

\* ---- bounds of the model ------------------------------------------------
NumIds == 4      \* message identifiers 1..NumIds
MaxLen == 3      \* longest transport response of a single getMessages call
MaxCache == 3    \* largest value of client.options.max_message_cache
MaxBulk == 2     \* longest input of bulkDelete, with identifiers 1..MaxBulk
MaxCalls == 2    \* getMessages calls in flight together
ConcIds == 2     \* identifiers in the responses of concurrent calls
ConcLen == 2     \* longest response of a concurrent call
MaxPending == 1  \* promises of one rest method not settled yet

Ids == 1..NumIds
Errors == {"e1", "e2"}
Origins == {"other", "getMessages"}

VARIABLES
  messages,           \* this.messages: the channel's cache (a Collection)
  max_message_cache,  \* this.client.options.max_message_cache, read live
  st,                 \* per getMessages call: where its promise chain stands
  settled,            \* per call: what the transport's promise settled with
  idx,                \* per call: raw messages the callback's loop has handled
  res,                \* per call: the callback's local Collection `messages`
  before,             \* per call: the cache when the callback started
  queue,              \* promise callbacks waiting to run, in settlement order
  arrived,            \* history: calls in the order their transport promise settled
  began,              \* history: calls in the order their callback first ran
  nFetch,             \* per call: invocations of rest.methods.getChannelMessages
  inserted,           \* history: ids given to _cacheMessage, while pairwise distinct
  constMax,           \* history: max_message_cache never changed since construction
  last,               \* the last operation: its input, its result, what it invoked
  pending,            \* per rest method: promises it returned that are not settled
  structure,          \* the class given to applyToClass: its prototype, its constructor
  instance            \* the fields of an instance constructed from `structure`

vars == <<messages, max_message_cache, st, settled, idx, res, before, queue,
          arrived, began, nFetch, inserted, constMax, last, pending, structure,
          instance>>

classVars == <<structure, instance>>

callVars == <<st, settled, idx, res, before, queue, arrived, began, nFetch>>

\* ---- values --------------------------------------------------------------
Null == [null |-> TRUE]
None == [none |-> TRUE]
Void == <<0>>   \* `inserted` once an identifier was inserted twice

Msgs == [id : Ids, by : Origins]

SeqsUpTo(S, n) == UNION {[1..k -> S] : k \in 0..n}

Distinct(s) == \A i, j \in DOMAIN s : i # j => s[i] # s[j]

Range(s) == {s[i] : i \in DOMAIN s}

Min(a, b) == IF a < b THEN a ELSE b

\* the last n elements of s
LastN(s, n) == SubSeq(s, Len(s) - Min(n, Len(s)) + 1, Len(s))

\* ---- Map (the base of Collection) -----------------------------------------
MapKeys(m) == [i \in DOMAIN m |-> m[i].k]

MapHas(m, key) == \E i \in DOMAIN m : m[i].k = key

MapGet(m, key) == m[CHOOSE i \in DOMAIN m : m[i].k = key].v

MapDelete(m, key) == SelectSeq(m, LAMBDA e : e.k # key)

\* set keeps the position of a key already present, and appends a new key
MapSet(m, key, val) ==
  IF MapHas(m, key)
  THEN [i \in DOMAIN m |-> IF m[i].k = key THEN [k |-> key, v |-> val] ELSE m[i]]
  ELSE Append(m, [k |-> key, v |-> val])

\* Collection.array(): the values in insertion order
CollectionArray(m) == [i \in DOMAIN m |-> m[i].v]

\* a Collection holding the given messages under their ids
CollectionOf(ms) == [i \in DOMAIN ms |-> [k |-> ms[i].id, v |-> ms[i]]]

\* ---- _cacheMessage --------------------------------------------------------
\* faulty variant: evicts the newest entry instead of the oldest
CacheMessageEvictNewest(msgs, maxSize, message) ==
  IF maxSize = 0
  THEN [messages |-> msgs, ret |-> Null]
  ELSE LET keys == MapKeys(msgs)
           kept == IF Len(msgs) >= maxSize /\ keys # <<>>
                   THEN MapDelete(msgs, keys[Len(keys)])
                   ELSE msgs
       IN [messages |-> MapSet(kept, message.id, message), ret |-> message]

\* faulty variant: no early return for maxSize = 0
CacheMessageNoShortCircuit(msgs, maxSize, message) ==
  LET keys == MapKeys(msgs)
      kept == IF Len(msgs) >= maxSize /\ keys # <<>>
              THEN MapDelete(msgs, keys[1])
              ELSE msgs
  IN [messages |-> MapSet(kept, message.id, message), ret |-> message]

\* faulty variant: a key already present keeps its old value
CacheMessageKeepsExisting(msgs, maxSize, message) ==
  IF maxSize = 0
  THEN [messages |-> msgs, ret |-> Null]
  ELSE LET keys == MapKeys(msgs)
           kept == IF Len(msgs) >= maxSize /\ keys # <<>>
                   THEN MapDelete(msgs, keys[1])
                   ELSE msgs
       IN [messages |-> IF MapHas(kept, message.id)
                        THEN kept
                        ELSE MapSet(kept, message.id, message),
           ret |-> message]

\* _cacheMessage(message): the cache afterwards and the value returned, for the
\* cache msgs and the value maxSize of the option. At most one entry is deleted,
\* the first key, whenever size >= maxSize, whether or not message.id is a key.
CacheMessage(msgs, maxSize, message) ==
  IF maxSize = 0
  THEN [messages |-> msgs, ret |-> Null]
  ELSE LET keys == MapKeys(msgs)
           kept == IF Len(msgs) >= maxSize /\ keys # <<>>
                   THEN MapDelete(msgs, keys[1])
                   ELSE msgs
       IN [messages |-> MapSet(kept, message.id, message), ret |-> message]

\* the history of inserted identifiers after one more call of _cacheMessage
Inserted(h, id) ==
  IF h = Void \/ id \in Range(h) THEN Void ELSE Append(h, id)

\* ---- bulkDelete -----------------------------------------------------------
\* An argument is [kind, val]: kind "Map" (a Collection), "Array", or "other"
\* (a number, a string, null, a plain object).
BulkMessages == [id : 1..MaxBulk, by : {"other"}]

ArrayInputs == SeqsUpTo(BulkMessages, MaxBulk)

MapInputs ==
  {CollectionOf(s) : s \in {t \in SeqsUpTo(BulkMessages, MaxBulk) :
                              Distinct([i \in DOMAIN t |-> t[i].id])}}

OtherInputs == {[number |-> 42]}

\* what the transport reports as deleted when its promise is fulfilled
DeletedReports == SeqsUpTo(1..MaxBulk, MaxBulk)

RejectedWith(reason) == [state |-> "rejected", reason |-> reason]

\* the promise a rest method returns, not settled yet
PendingFrom(method) == [state |-> "pending", from |-> method]

\* faulty variant: no instanceof Array check
BulkDeleteNoCheck(arg) ==
  LET asArray == IF arg.kind = "Map" THEN CollectionArray(arg.val) ELSE arg.val
      messageIDs == IF arg.kind = "other" THEN <<>>
                    ELSE [i \in DOMAIN asArray |-> asArray[i].id]
  IN [out |-> PendingFrom("bulkDeleteMessages"),
      rest |-> <<[method |-> "bulkDeleteMessages", channel |-> "this",
                  args |-> messageIDs]>>]

\* faulty variant: identifiers in reverse order
BulkDeleteReversed(arg) ==
  LET asArray == IF arg.kind = "Map" THEN CollectionArray(arg.val) ELSE arg.val
  IN IF arg.kind \notin {"Map", "Array"}
     THEN [out |-> RejectedWith("pass an array or map"), rest |-> <<>>]
     ELSE LET messageIDs ==
                [i \in DOMAIN asArray |-> asArray[Len(asArray) + 1 - i].id]
          IN [out |-> PendingFrom("bulkDeleteMessages"),
              rest |-> <<[method |-> "bulkDeleteMessages", channel |-> "this",
                          args |-> messageIDs]>>]

\* bulkDelete(messages): the promise returned and the rest invocations made
BulkDeleteResult(arg) ==
  LET asArray == IF arg.kind = "Map" THEN CollectionArray(arg.val) ELSE arg.val
  IN IF arg.kind \notin {"Map", "Array"}
     THEN [out |-> RejectedWith("pass an array or map"), rest |-> <<>>]
     ELSE LET messageIDs == [i \in DOMAIN asArray |-> asArray[i].id]
          IN [out |-> PendingFrom("bulkDeleteMessages"),
              rest |-> <<[method |-> "bulkDeleteMessages", channel |-> "this",
                          args |-> messageIDs]>>]

\* ---- sendMessage / sendTTSMessage --------------------------------------------
Contents == {"hello", "bye"}

\* options.tts as the caller gave it; "undefined" also stands for options = {}
\* (the default of the parameter)
SendOptions == [tts : {"undefined", "true", "false"}]

\* sendMessage(content, options): the promise returned and the rest invocation
SendMessageResult(content, options) ==
  [out |-> PendingFrom("sendMessage"),
   rest |-> <<[method |-> "sendMessage", channel |-> "this",
               args |-> <<content, options.tts>>]>>]

\* faulty variant: the tts argument is dropped
SendTTSMessageSilent(content) ==
  [out |-> PendingFrom("sendMessage"),
   rest |-> <<[method |-> "sendMessage", channel |-> "this",
               args |-> <<content, "undefined">>]>>]

\* sendTTSMessage(content): the promise returned and the rest invocation
SendTTSMessageResult(content) ==
  [out |-> PendingFrom("sendMessage"),
   rest |-> <<[method |-> "sendMessage", channel |-> "this",
               args |-> <<content, "true">>]>>]

\* ---- applyToClass -------------------------------------------------------------
\* property names of structure.prototype: the five of TextBasedChannel.prototype
\* and one more
PropNames == {"sendMessage", "sendTTSMessage", "_cacheMessage", "getMessages",
              "bulkDelete", "toString"}

\* The classes given to applyToClass. A slot of the prototype is "absent" or a
\* function of the class's "own" (applyProp makes it "TextBasedChannel");
\* `constructs` tells whether the class's own constructor assigns
\* this.messages = new Collection().
Structures == [prototype : [PropNames -> {"absent", "own"}], constructs : BOOLEAN]

\* the second argument: omitted (the default applies), true or false
Fulls == {"undefined", "true", "false"}

\* faulty variant: the default of `full` is true
PropsFullByDefault(full) ==
  <<"sendMessage", "sendTTSMessage">> \o
    (IF full \in {"true", "undefined"}
     THEN <<"_cacheMessage", "getMessages", "bulkDelete">>
     ELSE <<>>)

\* lines 123-128: the array `props` for the argument `full` (default false)
Props(full) ==
  <<"sendMessage", "sendTTSMessage">> \o
    (IF full = "true"
     THEN <<"_cacheMessage", "getMessages", "bulkDelete">>
     ELSE <<>>)

\* structure.prototype[prop] = TextBasedChannel.prototype[prop]
ApplyProp(proto, prop) == [proto EXCEPT ![prop] = "TextBasedChannel"]

\* for (const prop of props) applyProp(structure, prop)
RECURSIVE ApplyProps(_, _)
ApplyProps(proto, props) ==
  IF props = <<>> THEN proto
  ELSE ApplyProps(ApplyProp(proto, Head(props)), Tail(props))

\* what a call throws
Thrown(error) == [state |-> "thrown", error |-> error]

\* ---- the state after construction -------------------------------------------
\* no class has been given to applyToClass, nothing was constructed from it
NoStructure == [none |-> TRUE]

NoInstance == [none |-> TRUE]

Calls == 1..MaxCalls

Observe(op, call, in, out, max, pre, rest) ==
  [op |-> op, call |-> call, in |-> in, out |-> out, max |-> max,
   before |-> pre, rest |-> rest]

InitChannel ==
  /\ messages = <<>>
  /\ max_message_cache \in 0..MaxCache
  /\ st = [c \in Calls |-> "idle"]
  /\ settled = [c \in Calls |-> None]
  /\ idx = [c \in Calls |-> 0]
  /\ res = [c \in Calls |-> <<>>]
  /\ before = [c \in Calls |-> <<>>]
  /\ queue = <<>>
  /\ arrived = <<>>
  /\ began = <<>>
  /\ nFetch = [c \in Calls |-> 0]
  /\ inserted = <<>>
  /\ constMax = TRUE
  /\ last = Observe("new", 0, None, None, 0, <<>>, <<>>)
  /\ pending = [sendMessage |-> 0, bulkDeleteMessages |-> 0]

\* a channel; applyToClass has been given no class
Init ==
  /\ InitChannel
  /\ structure = NoStructure
  /\ instance = NoInstance

\* a class about to be given to applyToClass
InitApply ==
  /\ InitChannel
  /\ structure \in Structures
  /\ instance = NoInstance

\* a promise callback is in the middle of its synchronous run
Busy == \E c \in Calls : st[c] = "running"

\* No promise callback is waiting or running. Callbacks of settled promises run
\* before the next task, so the operations a task starts find no callback waiting.
Idle == queue = <<>> /\ ~Busy

\* ---- synchronous operations -------------------------------------------------
\* the client's option is changed (it is read live by _cacheMessage)
SetMax(n) ==
  /\ Idle
  /\ n # max_message_cache
  /\ max_message_cache' = n
  /\ constMax' = FALSE
  /\ last' = Observe("setMax", 0, n, None, n, messages, <<>>)
  /\ UNCHANGED <<pending, classVars, messages, inserted, callVars>>

\* a collaborator calls channel._cacheMessage(message)
CacheInsert(message) ==
  LET r == CacheMessage(messages, max_message_cache, message)
  IN /\ Idle
     /\ messages' = r.messages
     /\ inserted' = Inserted(inserted, message.id)
     /\ last' = Observe("_cacheMessage", 0, message, r.ret, max_message_cache,
                        messages, <<>>)
     /\ UNCHANGED <<pending, classVars, max_message_cache, constMax, callVars>>

\* faulty variant: the messages given are removed from the cache
BulkDeleteEvicting(kind, val) ==
  LET arg == [kind |-> kind, val |-> val]
      r == BulkDeleteResult(arg)
      ids == IF r.rest = <<>> THEN {} ELSE Range(r.rest[1].args)
  IN /\ Idle
     /\ r.rest # <<>> => pending.bulkDeleteMessages < MaxPending
     /\ pending' = IF r.rest # <<>>
                   THEN [pending EXCEPT !.bulkDeleteMessages = @ + 1]
                   ELSE pending
     /\ messages' = SelectSeq(messages, LAMBDA e : e.k \notin ids)
     /\ last' = Observe("bulkDelete", 0, arg, r.out, max_message_cache,
                        messages, r.rest)
     /\ UNCHANGED <<classVars, max_message_cache, inserted, constMax, callVars>>

\* channel.bulkDelete(arg)
BulkDelete(kind, val) ==
  LET arg == [kind |-> kind, val |-> val]
      r == BulkDeleteResult(arg)
  IN /\ Idle
     /\ r.rest # <<>> => pending.bulkDeleteMessages < MaxPending
     /\ pending' = IF r.rest # <<>>
                   THEN [pending EXCEPT !.bulkDeleteMessages = @ + 1]
                   ELSE pending
     /\ last' = Observe("bulkDelete", 0, arg, r.out, max_message_cache,
                        messages, r.rest)
     /\ UNCHANGED <<classVars, messages, max_message_cache, inserted, constMax, callVars>>

\* faulty variant: the message being sent is put into the cache
SendMessageCaching(content, options) ==
  LET r == SendMessageResult(content, options)
  IN /\ Idle
     /\ pending.sendMessage < MaxPending
     /\ pending' = [pending EXCEPT !.sendMessage = @ + 1]
     /\ messages' = MapSet(messages, 1, [id |-> 1, by |-> "other"])
     /\ last' = Observe("sendMessage", 0, [content |-> content, options |-> options],
                        r.out, max_message_cache, messages, r.rest)
     /\ UNCHANGED <<classVars, max_message_cache, inserted, constMax, callVars>>

\* channel.sendMessage(content, options)
SendMessage(content, options) ==
  LET r == SendMessageResult(content, options)
  IN /\ Idle
     /\ pending.sendMessage < MaxPending
     /\ pending' = [pending EXCEPT !.sendMessage = @ + 1]
     /\ last' = Observe("sendMessage", 0, [content |-> content, options |-> options],
                        r.out, max_message_cache, messages, r.rest)
     /\ UNCHANGED <<classVars, messages, max_message_cache, inserted, constMax,
                    callVars>>

\* channel.sendTTSMessage(content)
SendTTSMessage(content) ==
  LET r == SendTTSMessageResult(content)
  IN /\ Idle
     /\ pending.sendMessage < MaxPending
     /\ pending' = [pending EXCEPT !.sendMessage = @ + 1]
     /\ last' = Observe("sendTTSMessage", 0, [content |-> content], r.out,
                        max_message_cache, messages, r.rest)
     /\ UNCHANGED <<classVars, messages, max_message_cache, inserted, constMax,
                    callVars>>

\* The promise of a rest method is the one the operation returned: nothing of
\* the channel is chained on it, so its settling runs no code of the channel.
RestFulfilled(method, value) ==
  /\ Idle
  /\ pending[method] > 0
  /\ pending' = [pending EXCEPT ![method] = @ - 1]
  /\ last' = Observe("fulfilled:" \o method, 0, None,
                     [state |-> "resolved", value |-> value],
                     max_message_cache, messages, <<>>)
  /\ UNCHANGED <<classVars, messages, max_message_cache, inserted, constMax,
                 callVars>>

RestRejected(method, e) ==
  /\ Idle
  /\ pending[method] > 0
  /\ pending' = [pending EXCEPT ![method] = @ - 1]
  /\ last' = Observe("rejected:" \o method, 0, None, RejectedWith(e),
                     max_message_cache, messages, <<>>)
  /\ UNCHANGED <<classVars, messages, max_message_cache, inserted, constMax,
                 callVars>>

\* ---- applyToClass and the instances of the class ------------------------------
\* TextBasedChannel.applyToClass(structure, full)
ApplyToClass(full) ==
  /\ Idle
  /\ structure # NoStructure
  /\ structure' = [structure EXCEPT
                     !.prototype = ApplyProps(structure.prototype, Props(full))]
  /\ last' = Observe("applyToClass", 0, [structure |-> structure, full |-> full],
                     None, max_message_cache, messages, Props(full))
  /\ UNCHANGED <<pending, instance, messages, max_message_cache, inserted,
                 constMax, callVars>>

\* the class the capability was applied to
Adopter(struct) ==
  /\ struct # NoStructure
  /\ \E p \in PropNames : struct.prototype[p] = "TextBasedChannel"

\* new structure(...): the structure's own constructor runs. applyProp copied
\* functions of the prototype only, so the constructor of TextBasedChannel
\* (lines 10-16) does not run.
Construct ==
  /\ Idle
  /\ Adopter(structure)
  /\ instance = NoInstance
  /\ instance' = [has |-> structure.constructs, messages |-> <<>>]
  /\ last' = Observe("construct", 0, None, None, max_message_cache, messages, <<>>)
  /\ UNCHANGED <<pending, structure, messages, max_message_cache, inserted,
                 constMax, callVars>>

\* instance._cacheMessage(message), the function installed by applyToClass:
\* `this` is the instance, and this.messages.size throws when this.messages
\* is undefined
InstanceCacheInsert(message) ==
  /\ Idle
  /\ instance # NoInstance
  /\ structure.prototype["_cacheMessage"] = "TextBasedChannel"
  /\ IF max_message_cache # 0 /\ ~instance.has
     THEN /\ instance' = instance
          /\ last' = Observe("instance._cacheMessage", 0, message,
                             Thrown("TypeError"), max_message_cache, messages, <<>>)
     ELSE LET r == CacheMessage(instance.messages, max_message_cache, message)
          IN /\ instance' = [instance EXCEPT !.messages = r.messages]
             /\ last' = Observe("instance._cacheMessage", 0, message, r.ret,
                                max_message_cache, messages, <<>>)
  /\ UNCHANGED <<pending, structure, messages, max_message_cache, inserted,
                 constMax, callVars>>

\* ---- getMessages ------------------------------------------------------------
\* new Message(this, message, this.client) at line 91
NewMessage(raw) == [id |-> raw.id, by |-> "getMessages"]

\* the transport's responses: raw messages with pairwise distinct identifiers
Responses(n, len) ==
  {[i \in DOMAIN s |-> [id |-> s[i]]] : s \in {t \in SeqsUpTo(1..n, len) : Distinct(t)}}

\* The responses of a single call, up to a renaming of the identifiers (the code
\* only compares them for equality): the n-th is <<1, ..., n>>.
FirstIds(len) == {[i \in 1..k |-> [id |-> i]] : k \in 0..len}

Dequeue(q, c) == SelectSeq(q, LAMBDA d : d # c)

\* faulty variant: a waiting callback may run at any step
CanRunAnyQueued(c) == c \in Range(queue)

\* faulty variant: waiting callbacks run in the order the calls were issued
CanRunInIssueOrder(c) == c \in Range(queue) /\ \A d \in Range(queue) : c <= d

\* The callback of call c may run: callbacks run one at a time, each to its end,
\* in the order the promises they hang on were settled.
CanRun(c) == queue # <<>> /\ Head(queue) = c

\* channel.getMessages(options): the c-th call; it invokes the transport once
Fetch(c) ==
  /\ Idle
  /\ st[c] = "idle"
  /\ \A d \in Calls : d < c => st[d] # "idle"
  /\ st' = [st EXCEPT ![c] = "pending"]
  /\ nFetch' = [nFetch EXCEPT ![c] = @ + 1]
  /\ last' = Observe("getMessages", c, None, PendingFrom("getMessages"),
                     max_message_cache, messages,
                     <<[method |-> "getChannelMessages", channel |-> "this",
                        args |-> <<>>]>>)
  /\ UNCHANGED <<pending, classVars, messages, max_message_cache, settled, idx, res, before, queue,
                 arrived, began, inserted, constMax>>

\* the transport's promise of call c is fulfilled with data
Respond(c, d) ==
  /\ ~Busy
  /\ st[c] = "pending"
  /\ st' = [st EXCEPT ![c] = "queued"]
  /\ settled' = [settled EXCEPT ![c] = [ok |-> TRUE, data |-> d, err |-> ""]]
  /\ queue' = Append(queue, c)
  /\ arrived' = Append(arrived, c)
  /\ last' = Observe("fulfilled", c, None, None, max_message_cache, messages, <<>>)
  /\ UNCHANGED <<pending, classVars, messages, max_message_cache, idx, res, before, began, nFetch,
                 inserted, constMax>>

\* the transport's promise of call c is rejected with e
Fail(c, e) ==
  /\ ~Busy
  /\ st[c] = "pending"
  /\ st' = [st EXCEPT ![c] = "queued"]
  /\ settled' = [settled EXCEPT ![c] = [ok |-> FALSE, data |-> <<>>, err |-> e]]
  /\ queue' = Append(queue, c)
  /\ arrived' = Append(arrived, c)
  /\ last' = Observe("failed", c, None, None, max_message_cache, messages, <<>>)
  /\ UNCHANGED <<pending, classVars, messages, max_message_cache, idx, res, before, began, nFetch,
                 inserted, constMax>>

\* faulty variant: a message is put in the result only when it was cached
IterateCachedOnly(c) ==
  /\ CanRun(c)
  /\ st[c] \in {"queued", "running"}
  /\ settled[c].ok
  /\ idx[c] < Len(settled[c].data)
  /\ LET raw == settled[c].data[idx[c] + 1]
         msg == NewMessage(raw)
         r == CacheMessage(messages, max_message_cache, msg)
     IN /\ res' = [res EXCEPT ![c] = IF r.ret = Null THEN @ ELSE MapSet(@, raw.id, msg)]
        /\ messages' = r.messages
        /\ inserted' = Inserted(inserted, msg.id)
        /\ last' = Observe("iterate", c, msg, r.ret, max_message_cache, messages, <<>>)
  /\ idx' = [idx EXCEPT ![c] = @ + 1]
  /\ st' = [st EXCEPT ![c] = "running"]
  /\ before' = IF st[c] = "queued" THEN [before EXCEPT ![c] = messages] ELSE before
  /\ began' = IF st[c] = "queued" THEN Append(began, c) ELSE began
  /\ UNCHANGED <<pending, classVars, max_message_cache, settled, queue, arrived, nFetch, constMax>>

\* one turn of `for (const message of data)` in the callback of call c
Iterate(c) ==
  /\ CanRun(c)
  /\ st[c] \in {"queued", "running"}
  /\ settled[c].ok
  /\ idx[c] < Len(settled[c].data)
  /\ LET raw == settled[c].data[idx[c] + 1]
         msg == NewMessage(raw)
         r == CacheMessage(messages, max_message_cache, msg)
     IN /\ res' = [res EXCEPT ![c] = MapSet(@, raw.id, msg)]
        /\ messages' = r.messages
        /\ inserted' = Inserted(inserted, msg.id)
        /\ last' = Observe("iterate", c, msg, r.ret, max_message_cache, messages, <<>>)
  /\ idx' = [idx EXCEPT ![c] = @ + 1]
  /\ st' = [st EXCEPT ![c] = "running"]
  /\ before' = IF st[c] = "queued" THEN [before EXCEPT ![c] = messages] ELSE before
  /\ began' = IF st[c] = "queued" THEN Append(began, c) ELSE began
  /\ UNCHANGED <<pending, classVars, max_message_cache, settled, queue, arrived, nFetch, constMax>>

\* the loop is over: resolve(messages)
Resolve(c) ==
  /\ CanRun(c)
  /\ st[c] \in {"queued", "running"}
  /\ settled[c].ok
  /\ idx[c] = Len(settled[c].data)
  /\ st' = [st EXCEPT ![c] = "resolved"]
  /\ queue' = Dequeue(queue, c)
  /\ began' = IF st[c] = "queued" THEN Append(began, c) ELSE began
  /\ last' = Observe("resolve", c, settled[c].data,
                     [state |-> "resolved", value |-> res[c]], max_message_cache,
                     IF st[c] = "queued" THEN messages ELSE before[c], <<>>)
  /\ settled' = [settled EXCEPT ![c] = None]
  /\ res' = [res EXCEPT ![c] = <<>>]
  /\ before' = [before EXCEPT ![c] = <<>>]
  /\ UNCHANGED <<pending, classVars, messages, max_message_cache, idx, arrived, nFetch, inserted,
                 constMax>>

\* A rejection has no handler in .then(data => ...): it passes to the promise
\* .then returns, whose .catch handler is queued behind the callbacks waiting.
PassThrough(c) ==
  /\ CanRun(c)
  /\ st[c] = "queued"
  /\ ~settled[c].ok
  /\ st' = [st EXCEPT ![c] = "catching"]
  /\ queue' = Append(Dequeue(queue, c), c)
  /\ last' = Observe("passThrough", c, None, None, max_message_cache, messages, <<>>)
  /\ UNCHANGED <<pending, classVars, messages, max_message_cache, settled, idx, res, before, arrived,
                 began, nFetch, inserted, constMax>>

\* faulty variant: on a failure the transport is invoked again
RejectRetrying(c) ==
  /\ CanRun(c)
  /\ st[c] = "catching"
  /\ st' = [st EXCEPT ![c] = "pending"]
  /\ nFetch' = [nFetch EXCEPT ![c] = @ + 1]
  /\ queue' = Dequeue(queue, c)
  /\ last' = Observe("getMessages", c, None, PendingFrom("getMessages"),
                     max_message_cache, messages,
                     <<[method |-> "getChannelMessages", channel |-> "this",
                        args |-> <<>>]>>)
  /\ settled' = [settled EXCEPT ![c] = None]
  /\ UNCHANGED <<pending, classVars, messages, max_message_cache, idx, res, before, arrived, began,
                 inserted, constMax>>

\* faulty variant: the failure is swallowed, the returned promise stays pending
RejectSwallowed(c) ==
  /\ CanRun(c)
  /\ st[c] = "catching"
  /\ queue' = Dequeue(queue, c)
  /\ last' = Observe("reject", c, settled[c].err, None, max_message_cache,
                     messages, <<>>)
  /\ UNCHANGED <<pending, classVars, messages, max_message_cache, st, settled, idx, res,
                 before, arrived, began, nFetch, inserted, constMax>>

\* .catch(reject)
Reject(c) ==
  /\ CanRun(c)
  /\ st[c] = "catching"
  /\ st' = [st EXCEPT ![c] = "rejected"]
  /\ queue' = Dequeue(queue, c)
  /\ last' = Observe("reject", c, settled[c].err, RejectedWith(settled[c].err),
                     max_message_cache, messages, <<>>)
  /\ settled' = [settled EXCEPT ![c] = None]
  /\ UNCHANGED <<pending, classVars, messages, max_message_cache, idx, res, before, arrived, began,
                 nFetch, inserted, constMax>>

\* ---- specifications ---------------------------------------------------------
\* the cache under direct insertions and a changing option
NextCache ==
  \/ \E n \in 0..MaxCache : SetMax(n)
  \/ \E m \in Msgs : CacheInsert(m)

SpecCache == Init /\ [][NextCache]_vars

\* bulkDelete on a channel whose cache holds messages
NextBulk ==
  \/ \E m \in BulkMessages : CacheInsert(m)
  \/ \E a \in ArrayInputs : BulkDelete("Array", a)
  \/ \E a \in MapInputs : BulkDelete("Map", a)
  \/ \E a \in OtherInputs : BulkDelete("other", a)
  \/ \E d \in DeletedReports : RestFulfilled("bulkDeleteMessages", d)
  \/ \E e \in Errors : RestRejected("bulkDeleteMessages", e)

SpecBulk == Init /\ [][NextBulk]_vars

\* sendMessage and sendTTSMessage on a channel whose cache holds messages
NextSend ==
  \/ \E n \in 0..MaxCache : SetMax(n)
  \/ \E m \in BulkMessages : CacheInsert(m)
  \/ \E c \in Contents, o \in SendOptions : SendMessage(c, o)
  \/ \E c \in Contents : SendTTSMessage(c)
  \/ \E m \in BulkMessages : RestFulfilled("sendMessage", m)
  \/ \E e \in Errors : RestRejected("sendMessage", e)

SpecSend == Init /\ [][NextSend]_vars

\* applyToClass on a class, and an instance of that class
NextApply ==
  \/ \E f \in Fulls : ApplyToClass(f)
  \/ Construct
  \/ \E m \in BulkMessages : InstanceCacheInsert(m)

SpecApply == InitApply /\ [][NextApply]_vars

\* one getMessages call on a channel whose cache was filled before
NextFetch ==
  \/ \E n \in 0..MaxCache : SetMax(n)
  \/ \E m \in [id : Ids, by : {"other"}] : CacheInsert(m)
  \/ Fetch(1)
  \/ \E d \in FirstIds(MaxLen) : Respond(1, d)
  \/ \E e \in Errors : Fail(1, e)
  \/ Iterate(1)
  \/ Resolve(1)
  \/ PassThrough(1)
  \/ Reject(1)

SpecFetch == Init /\ [][NextFetch]_vars

\* several getMessages calls in flight
NextConc ==
  \E c \in Calls :
    \/ Fetch(c)
    \/ \E d \in Responses(ConcIds, ConcLen) : Respond(c, d)
    \/ \E e \in Errors : Fail(c, e)
    \/ Iterate(c)
    \/ Resolve(c)
    \/ PassThrough(c)
    \/ Reject(c)

SpecConc == Init /\ [][NextConc]_vars

\* The transport settles the promise of call c. Settling depends on the
\* response's length and not on its identifiers, so the responses are the
\* canonical ones.
Transport(c) ==
  \/ \E d \in FirstIds(ConcLen) : Respond(c, d)
  \/ \E e \in Errors : Fail(c, e)

\* a callback of call c's promise chain takes its next step
Callback(c) == Iterate(c) \/ Resolve(c) \/ PassThrough(c) \/ Reject(c)

NextLive == \E c \in Calls : Fetch(c) \/ Transport(c) \/ Callback(c)

\* Several calls in flight, where the transport settles every promise it
\* returned and the job queue runs every callback waiting in it.
SpecLive ==
  /\ Init
  /\ [][NextLive]_vars
  /\ \A c \in Calls : WF_vars(Transport(c)) /\ WF_vars(Callback(c))

\* ---- properties ---------------------------------------------------------------
IdsOf(raws) == [i \in DOMAIN raws |-> raws[i].id]

Pos(s, x) == CHOOSE i \in DOMAIN s : s[i] = x

\* call d has inserted some of its response's messages and has more to insert
MidBatch(d) == st[d] = "running" /\ idx[d] < Len(settled[d].data)

\* C1: after every _cacheMessage call made with max_message_cache > 0, the cache
\* holds at most as many entries as the option's value read by that call.
C1_CacheBound ==
  (last.op = "_cacheMessage" /\ last.max > 0) => Len(messages) <= last.max

\* C2: with the option constant at k > 0 since construction and the inserted
\* identifiers pairwise distinct, the cache holds exactly the last min(n, k)
\* inserted identifiers, in insertion order.
C2_FifoEviction ==
  (constMax /\ inserted # Void /\ max_message_cache > 0)
    => MapKeys(messages) = LastN(inserted, max_message_cache)

C2_Witness ==
  /\ constMax
  /\ max_message_cache = 2
  /\ inserted # Void
  /\ Len(inserted) = 3
  /\ MapKeys(messages) = <<inserted[2], inserted[3]>>

\* C3: a _cacheMessage call on a full cache (size = max_message_cache) with an
\* identifier already present keeps every entry that was in the cache.
C3_OverwriteEvictsNothing ==
  (/\ last.op = "_cacheMessage"
   /\ last.max > 0
   /\ Len(last.before) = last.max
   /\ MapHas(last.before, last.in.id))
    => \A i \in DOMAIN last.before : MapHas(messages, last.before[i].k)

\* C4: a _cacheMessage call made while max_message_cache = 0 returns null and
\* leaves the cache as it was; while the option has been 0 since construction
\* the cache is empty, whatever was inserted or fetched.
C4_ZeroSizeNoOp ==
  /\ (last.op \in {"_cacheMessage", "iterate"} /\ last.max = 0)
       => (last.out = Null /\ messages = last.before)
  /\ (constMax /\ max_message_cache = 0) => messages = <<>>

C4_Witness ==
  /\ last.op = "iterate"
  /\ last.max = 0
  /\ last.before # <<>>

\* C5, as claimed: when getMessages resolves a response of n distinct identifiers
\* with n <= max_message_cache, every identifier of the response is in the
\* returned Collection and in the cache, whatever the cache held before.
C5_PopulatesCache ==
  (last.op = "resolve" /\ Len(last.in) <= last.max)
    => \A i \in DOMAIN last.in :
         /\ MapHas(last.out.value, last.in[i].id)
         /\ MapHas(messages, last.in[i].id)

\* C5, amended: the same, for a cache that held none of the response's
\* identifiers when the callback started.
C5_PopulatesCacheFresh ==
  (/\ last.op = "resolve"
   /\ Len(last.in) <= last.max
   /\ \A i \in DOMAIN last.in : ~MapHas(last.before, last.in[i].id))
    => \A i \in DOMAIN last.in :
         /\ MapHas(last.out.value, last.in[i].id)
         /\ MapHas(messages, last.in[i].id)

C5_Witness ==
  /\ last.op = "resolve"
  /\ Len(last.in) = 2
  /\ last.max = 2
  /\ Len(last.before) = 2
  /\ \A i \in DOMAIN last.in : ~MapHas(last.before, last.in[i].id)
  /\ MapKeys(messages) = IdsOf(last.in)

\* C6: no callback inserts a message while another call's callback is between
\* two of its own insertions: the batches of two responses never interleave.
C6_BatchesNotInterleaved ==
  [][\A c \in Calls :
       idx'[c] > idx[c] => \A d \in Calls \ {c} : ~MidBatch(d)]_vars

C6_Witness ==
  /\ st[1] = "running"
  /\ idx[1] = 1
  /\ Len(settled[1].data) = 2
  /\ st[2] = "queued"
  /\ settled[2].ok
  /\ Len(settled[2].data) = 2

\* C7: callbacks start, and so messages enter the cache, in the order in which
\* the transport's responses completed, not in the order the calls were issued:
\* when a message of call c is inserted, every call whose response completed
\* before c's has finished its insertions.
C7_CompletionOrder ==
  /\ \A i, j \in DOMAIN began :
       i < j => Pos(arrived, began[i]) < Pos(arrived, began[j])
  /\ last.op = "iterate" =>
       \A k \in DOMAIN arrived :
         k < Pos(arrived, last.call) =>
           \/ st[arrived[k]] \in {"resolved", "rejected", "catching"}
           \/ (st[arrived[k]] = "queued" /\ ~settled[arrived[k]].ok)

C7_Witness ==
  /\ arrived = <<2, 1>>
  /\ began = <<2, 1>>
  /\ idx[2] >= 1
  /\ last.op = "iterate"
  /\ last.call = 1

\* C8: bulkDelete of an argument that is neither a Collection nor an Array
\* returns a rejected promise and invokes no rest method.
C8_RejectsBadInput ==
  (last.op = "bulkDelete" /\ last.in.kind \notin {"Map", "Array"})
    => (last.out.state = "rejected" /\ last.rest = <<>>)

C8_Witness ==
  /\ last.op = "bulkDelete"
  /\ last.in.kind = "other"
  /\ last.out = RejectedWith("pass an array or map")

C10_FailurePropagates ==
  /\ \A c \in Calls :
       /\ nFetch[c] <= 1
       /\ st[c] \in {"catching", "rejected"} => (nFetch[c] = 1 /\ idx[c] = 0)
  /\ last.op \in {"getMessages", "failed", "passThrough", "reject"}
       => messages = last.before
  /\ last.op = "reject"
       => (st[last.call] = "rejected" /\ last.out = RejectedWith(last.in))

C10_Witness ==
  /\ last.op = "reject"
  /\ st[1] = "rejected"
  /\ last.in = "e2"
  /\ last.out.reason = "e2"
  /\ messages # <<>>

SendOps == {"sendMessage", "sendTTSMessage", "fulfilled:sendMessage",
            "rejected:sendMessage"}

\* C11: issuing sendMessage or sendTTSMessage, and the settling of the promise
\* the transport returned for it (fulfilled or rejected), leave the cache as it
\* was (keys, values, order); a step that changes the cache is a _cacheMessage
\* call.
C11_SendLeavesCache ==
  [][/\ last'.op \in SendOps => messages' = messages
     /\ messages' # messages => last'.op = "_cacheMessage"]_vars

C11_Witness ==
  /\ last.op = "fulfilled:sendMessage"
  /\ messages # <<>>
  /\ ~MapHas(messages, last.out.value.id)

\* C12: sendTTSMessage(content) makes the rest invocation that
\* sendMessage(content, {tts: true}) makes (same method, channel, content and
\* tts = true), exactly one, and returns the promise of that invocation.
C12_TTSEquivalence ==
  last.op = "sendTTSMessage" =>
    LET r == SendMessageResult(last.in.content, [tts |-> "true"])
    IN /\ last.rest = r.rest
       /\ last.out = r.out
       /\ Len(last.rest) = 1
       /\ last.rest[1].args = <<last.in.content, "true">>
       /\ last.out = PendingFrom(last.rest[1].method)

C12_Witness ==
  /\ last.op = "sendTTSMessage"
  /\ last.in.content = "bye"
  /\ messages # <<>>

\* C13: the Collection getMessages resolves with has one entry per raw message
\* of the transport's response, keyed by its id and holding the Message built
\* from it, in the response's order, whatever max_message_cache is (0, or less
\* than the response's length, included).
C13_ResultMirrorsResponse ==
  last.op = "resolve" =>
    /\ MapKeys(last.out.value) = IdsOf(last.in)
    /\ \A i \in DOMAIN last.in :
         MapGet(last.out.value, last.in[i].id) = NewMessage(last.in[i])

C13_Witness ==
  /\ last.op = "resolve"
  /\ last.max > 0
  /\ last.max < Len(last.in)
  /\ Len(messages) < Len(last.out.value)
  /\ MapKeys(last.out.value) = IdsOf(last.in)

C13_WitnessZero ==
  /\ last.op = "resolve"
  /\ last.max = 0
  /\ Len(last.in) >= 2
  /\ messages = <<>>

\* C16: a _cacheMessage call with an identifier already cached replaces the
\* value and leaves the order of the cached identifiers, the overwritten one
\* included, as it was before the call (also when the cache is full and the
\* overwritten identifier is the earliest-inserted one).
C16_OverwriteKeepsPosition ==
  (last.op = "_cacheMessage" /\ last.max > 0 /\ MapHas(last.before, last.in.id)) =>
    /\ MapKeys(messages) = MapKeys(last.before)
    /\ MapGet(messages, last.in.id) = last.in

\* C18: after a _cacheMessage(message) call made with max_message_cache > 0,
\* whatever the cache held, the cache maps message.id to that message and the
\* call returned that message.
C18_LatestIsCached ==
  (last.op = "_cacheMessage" /\ last.max > 0) =>
    /\ MapHas(messages, last.in.id)
    /\ MapGet(messages, last.in.id) = last.in
    /\ last.out = last.in
    /\ Len(SelectSeq(messages, LAMBDA e : e.k = last.in.id)) = 1

C18_Witness ==
  /\ last.op = "_cacheMessage"
  /\ last.max > 0
  /\ Len(last.before) >= last.max
  /\ MapHas(last.before, last.in.id)
  /\ MapGet(last.before, last.in.id) # last.in
  /\ MapGet(messages, last.in.id) = last.in

BulkOps == {"bulkDelete", "fulfilled:bulkDeleteMessages",
            "rejected:bulkDeleteMessages"}

\* C19: for every argument of bulkDelete, and whether the transport's promise
\* is then fulfilled or rejected, the cache after the step is the cache before
\* it: identifiers reported deleted stay cached.
C19_BulkDeleteLeavesCache ==
  last.op \in BulkOps => messages = last.before

C19_Witness ==
  /\ last.op = "fulfilled:bulkDeleteMessages"
  /\ Len(last.out.value) = MaxBulk
  /\ \A i \in DOMAIN last.out.value : MapHas(messages, last.out.value[i])

Minimal == {"sendMessage", "sendTTSMessage"}

Full == Minimal \cup {"_cacheMessage", "getMessages", "bulkDelete"}

\* C14: applyToClass(structure) and applyToClass(structure, false) install
\* exactly sendMessage and sendTTSMessage on structure.prototype;
\* applyToClass(structure, true) installs exactly those two and _cacheMessage,
\* getMessages and bulkDelete; each once, and every other property of the
\* prototype is left as it was.
C14_InstallsExactly ==
  last.op = "applyToClass" =>
    LET expected == IF last.in.full = "true" THEN Full ELSE Minimal
    IN /\ Range(last.rest) = expected
       /\ Len(last.rest) = Cardinality(expected)
       /\ \A p \in PropNames :
            structure.prototype[p] =
              IF p \in expected THEN "TextBasedChannel"
              ELSE last.in.structure.prototype[p]

C14_Witness ==
  /\ last.op = "applyToClass"
  /\ last.in.full = "undefined"
  /\ last.in.structure.prototype["getMessages"] = "own"
  /\ last.in.structure.prototype["sendMessage"] = "own"
  /\ structure.prototype["sendMessage"] = "TextBasedChannel"
  /\ structure.prototype["getMessages"] = "own"

\* C15: an instance constructed from a class the capability was applied to has
\* an own `messages` Collection, empty at construction, so _cacheMessage on that
\* instance finds a cache to work on.
C15_AdoptersHaveMessages ==
  /\ last.op = "construct" => (instance.has /\ instance.messages = <<>>)
  /\ last.op = "instance._cacheMessage" => last.out # Thrown("TypeError")

Settled == {"resolved", "rejected"}

\* C17: with the transport settling every promise it returned, every
\* getMessages call issued is eventually resolved or rejected; it is resolved
\* only when the loop has handled every message of the response; once settled
\* its state never changes (not both, not twice); and no step takes an issued
\* call back to not issued.
C17_SettlesOnce ==
  /\ \A c \in Calls : (st[c] = "pending") ~> (st[c] \in Settled)
  /\ [][\A c \in Calls :
          /\ st[c] \in Settled => st'[c] = st[c]
          /\ st[c] # "idle" => st'[c] # "idle"
          /\ (st'[c] = "resolved" /\ st[c] # "resolved") =>
               (settled[c].ok /\ idx[c] = Len(settled[c].data))
          /\ (st'[c] = "rejected" /\ st[c] # "rejected") => ~settled[c].ok]_vars

C17_Witness ==
  /\ st[1] = "resolved"
  /\ idx[1] = ConcLen
  /\ st[2] = "rejected"
  /\ last.op = "reject"

====
